---- MODULE Spec2Model ----
(***************************************************************************)
(* Model of the analysis engine of kumaDocReport (src/main.py):            *)
(* analyze_heartbeats, calculate_summary_stats and the per-monitor loop of *)
(* main that calls them, calculate_hours_since_period_start and            *)
(* _format_timedelta.                                                      *)
(*                                                                         *)
(* Instants are integers counted in days; a time span is a difference of   *)
(* instants.  An optional value (Python None or a value) is a sequence of  *)
(* length 0 or 1.  A text is a sequence of one-character strings.  A       *)
(* quotient that Python computes in floating point is kept exact as a      *)
(* pair [num, den].                                                        *)
(***************************************************************************)
EXTENDS Integers, Sequences, FiniteSets, TLC

VARIABLES
  heartbeats,        \* main: the batch api.get_monitor_beats returned
  clock,             \* what datetime.datetime.now(user_tz) returns when read
  pc,                \* main: position in the per-monitor loop
  analysis_results,  \* main: what analyze_heartbeats returned
  now_aware,         \* analyze_heartbeats: the clock read for a trailing incident
  summary_stats,     \* main: what calculate_summary_stats returned
  now,               \* calculate_summary_stats: the clock read for the windows
  period,            \* calculate_hours_since_period_start: its argument
  hours_pc,          \* calculate_hours_since_period_start: position in the call
  wall_clock,        \* what datetime.datetime.now(tz) returned when read
  hours_now,         \* calculate_hours_since_period_start: its local now
  report_times,      \* main: what calculate_hours_since_period_start returned
  raised,            \* the exception that left calculate_hours_since_period_start
  td,                \* _format_timedelta: its argument
  format_pc,         \* _format_timedelta: position in the call
  formatted          \* what _format_timedelta returned

hvars == <<period, hours_pc, wall_clock, hours_now, report_times, raised>>
fvars == <<td, format_pc, formatted>>
vars == <<heartbeats, clock, pc, analysis_results, now_aware, summary_stats, now,
          hvars, fvars>>

(***************************************************************************)
(* Bounds of the model.                                                    *)
(***************************************************************************)
MaxBeats == 3
MaxKwBeats == 3
MaxPingBeats == 3
MaxClock == 33
MaxUnit == 2

None == <<>>
Some(x) == <<x>>

(***************************************************************************)
(* Inputs.  The clock starts at day 32; the instants of the beats are      *)
(* chosen around it: day 2 is the start of the 30-day window at clock 32   *)
(* and outside it at clock 33, day 32 is inside every window, and day 34   *)
(* is later than the clock (a beat stamped ahead of the local clock).      *)
(* Status 0 is down, 1 is up, 2 is pending.                                *)
(***************************************************************************)
BeatTimes == {2, 32, 34}
Clocks == 32..MaxClock
Statuses == {0, 1}

WellFormed(t) == [kind |-> "str", wellformed |-> TRUE, instant |-> t]
Malformed == [kind |-> "str", wellformed |-> FALSE, instant |-> 0]
Epoch(t) == [kind |-> "num", wellformed |-> TRUE, instant |-> t]
Missing == [kind |-> "none", wellformed |-> FALSE, instant |-> 0]

TimeVals == {WellFormed(t) : t \in BeatTimes} \cup {Malformed}

PlainMsg == <<"o", "k">>
MarkerMsg == <<"b", "u", "t", "[", "k", "]">>

KwMsgs ==
  { <<>>,
    <<"b", "u", "t">>,
    <<"[", "k", "]">>,
    <<"b", "u", "t", "[", "k", "]">>,
    <<"b", "u", "t", "[", "]">>,
    <<"b", "u", "t", "[", "j", "k", "]">>,
    <<"[", "j", "]", "b", "u", "t", "[", "k", "]">>,
    <<"[", "]", "b", "u", "t", "[", "k", "]">> }

Records ==
  [time : TimeVals, status : Statuses, ping : {None}, msg : {PlainMsg}]
  \cup [time : {Missing, Epoch(32)}, status : {2}, ping : {Some(7)}, msg : {MarkerMsg}]

KwRecords == [time : {WellFormed(32)}, status : {1}, ping : {None}, msg : KwMsgs]

\* Batches that vary the latency: day 27 lies in the 7-day window and outside
\* the 1-day window, day 33 is the clock's last value or ahead of it.
PingTimes == {2, 27, 33}

PingRecords ==
  [time : {WellFormed(t) : t \in PingTimes}, status : {0}, ping : {None}, msg : {PlainMsg}]
  \cup [time : {WellFormed(t) : t \in PingTimes}, status : {1},
        ping : {Some(7), Some(10)}, msg : {PlainMsg}]

SeqsUpTo(S, n) == UNION {[1..k -> S] : k \in 0..n}

Batches == SeqsUpTo(Records, MaxBeats)
KwBatches == SeqsUpTo(KwRecords, MaxKwBeats)
PingBatches == SeqsUpTo(PingRecords, MaxPingBeats)

(***************************************************************************)
(* to_datetime                                                             *)
(***************************************************************************)
\* Variant: a value that does not parse is read as the epoch instead of dropped.
to_datetime_epoch_default(time_val) ==
  IF time_val.wellformed THEN Some(time_val.instant) ELSE Some(0)

to_datetime(time_val) ==
  IF time_val.kind = "str"
    THEN IF time_val.wellformed THEN Some(time_val.instant) ELSE None
    ELSE IF time_val.kind = "num" THEN Some(time_val.instant) ELSE None

(***************************************************************************)
(* Keyword extraction: 'but' in msg, then re.search(r"\[(.*?)\]", msg).    *)
(***************************************************************************)
Marker == <<"b", "u", "t">>

ContainsMarker(msg) ==
  \E i \in 1..Len(msg) : i + 2 <= Len(msg) /\ SubSeq(msg, i, i + 2) = Marker

Closers(msg, i) == {j \in (i + 1)..Len(msg) : msg[j] = "]"}

Min(S) == CHOOSE x \in S : \A y \in S : x <= y

MatchAt(msg, i) ==
  /\ msg[i] = "["
  /\ Closers(msg, i) # {}
  /\ \A k \in (i + 1)..(Min(Closers(msg, i)) - 1) : msg[k] # "\n"

re_search(msg) ==
  LET starts == {i \in 1..Len(msg) : MatchAt(msg, i)}
  IN IF starts = {} THEN None
     ELSE LET i == Min(starts)
              j == Min(Closers(msg, i))
          IN Some(SubSeq(msg, i + 1, j - 1))

(***************************************************************************)
(* analyze_heartbeats: the record loop.                                    *)
(***************************************************************************)
Repeat(x, n) == [i \in 1..n |-> x]

ExtractKeyword(msg) ==
  IF ContainsMarker(msg)
    THEN LET match == re_search(msg)
         IN IF match # None /\ match[1] # <<>> THEN match ELSE None
    ELSE None

\* The loop body has two independent halves: the keyword counters, and the
\* beats and ping samples kept when the timestamp parses.
ClassifyInit == [keywords |-> <<>>, keywords_count |-> 0, count |-> 0]

ClassifyBeat(st, beat) ==
  LET results == ExtractKeyword(beat.msg)
  IN [count |-> st.count + 1,
      keywords |-> IF results # None
                     THEN st.keywords \o Repeat(results[1], Len(results[1]))
                     ELSE st.keywords,
      keywords_count |-> IF results # None THEN st.keywords_count + 1
                         ELSE st.keywords_count]

RECURSIVE ClassifyBeats(_, _)
ClassifyBeats(st, beats) ==
  IF beats = <<>> THEN st ELSE ClassifyBeats(ClassifyBeat(st, Head(beats)), Tail(beats))

CollectInit == [processed_beats |-> <<>>, ping_data |-> <<>>]

CollectBeat(st, beat) ==
  LET dt == to_datetime(beat.time)
  IN IF dt # None
       THEN [processed_beats |->
               Append(st.processed_beats, [datetime |-> dt[1], status |-> beat.status]),
             ping_data |->
               IF beat.ping # None
                 THEN Append(st.ping_data, [datetime |-> dt[1], ping |-> beat.ping[1]])
                 ELSE st.ping_data]
       ELSE st

RECURSIVE CollectBeats(_, _)
CollectBeats(st, beats) ==
  IF beats = <<>> THEN st ELSE CollectBeats(CollectBeat(st, Head(beats)), Tail(beats))

(***************************************************************************)
(* round(keywords_count / count * 100, 2), in hundredths of a percent.     *)
(***************************************************************************)
RoundHalfEven(num, den) ==
  LET q == num \div den
      r == num % den
  IN IF 2 * r < den THEN q
     ELSE IF 2 * r > den THEN q + 1
     ELSE IF q % 2 = 0 THEN q ELSE q + 1

KeywordRatio(keywords_count, count) ==
  IF count > 0 THEN RoundHalfEven(keywords_count * 10000, count) ELSE 0

Range(seq) == {seq[i] : i \in DOMAIN seq}

(***************************************************************************)
(* sorted(processed_beats, key=lambda x: x['datetime']): a stable sort.    *)
(***************************************************************************)
\* Variant: the beats are walked in the order received.
SortedBeats_unsorted(processed_beats) == processed_beats

InsertStable(sorted, b) ==
  LET k == Cardinality({i \in DOMAIN sorted : sorted[i].datetime <= b.datetime})
  IN SubSeq(sorted, 1, k) \o <<b>> \o SubSeq(sorted, k + 1, Len(sorted))

RECURSIVE SortFrom(_, _)
SortFrom(sorted, rest) ==
  IF rest = <<>> THEN sorted ELSE SortFrom(InsertStable(sorted, Head(rest)), Tail(rest))

SortedBeats(processed_beats) == SortFrom(<<>>, processed_beats)

(***************************************************************************)
(* analyze_heartbeats: the incident loop and the trailing open incident.   *)
(***************************************************************************)
DetectInit == [incidents |-> <<>>, current_downtime_start_dt |-> None]

\* Variant: the open incident is not cleared when it is closed.
DetectBeat_no_reset(st, beat) ==
  LET is_down == beat.status = 0
  IN IF is_down /\ st.current_downtime_start_dt = None
       THEN [st EXCEPT !.current_downtime_start_dt = Some(beat.datetime)]
     ELSE IF ~is_down /\ st.current_downtime_start_dt # None
       THEN [st EXCEPT !.incidents =
               Append(st.incidents,
                      [start |-> st.current_downtime_start_dt[1],
                       duration |-> beat.datetime - st.current_downtime_start_dt[1]])]
     ELSE st

\* Variant: every down beat restarts the open incident.
DetectBeat_restart(st, beat) ==
  LET is_down == beat.status = 0
  IN IF is_down
       THEN [st EXCEPT !.current_downtime_start_dt = Some(beat.datetime)]
     ELSE IF st.current_downtime_start_dt # None
       THEN [incidents |->
               Append(st.incidents,
                      [start |-> st.current_downtime_start_dt[1],
                       duration |-> beat.datetime - st.current_downtime_start_dt[1]]),
             current_downtime_start_dt |-> None]
     ELSE st

DetectBeat(st, beat) ==
  LET is_down == beat.status = 0
  IN IF is_down /\ st.current_downtime_start_dt = None
       THEN [st EXCEPT !.current_downtime_start_dt = Some(beat.datetime)]
     ELSE IF ~is_down /\ st.current_downtime_start_dt # None
       THEN [incidents |->
               Append(st.incidents,
                      [start |-> st.current_downtime_start_dt[1],
                       duration |-> beat.datetime - st.current_downtime_start_dt[1]]),
             current_downtime_start_dt |-> None]
     ELSE st

RECURSIVE DetectBeats(_, _)
DetectBeats(st, beats) ==
  IF beats = <<>> THEN st ELSE DetectBeats(DetectBeat(st, Head(beats)), Tail(beats))

\* Variant: the trailing incident is appended without its ongoing flag.
CloseOngoing_no_flag(st, beats, now_dt) ==
  IF st.current_downtime_start_dt # None
    THEN Append(st.incidents,
                [start |-> st.current_downtime_start_dt[1],
                 duration |-> now_dt - st.current_downtime_start_dt[1]])
    ELSE st.incidents

\* Variant: the trailing incident ends at the last beat, not at the clock.
CloseOngoing_last_beat(st, beats, now_dt) ==
  IF st.current_downtime_start_dt # None
    THEN Append(st.incidents,
                [start |-> st.current_downtime_start_dt[1],
                 duration |-> beats[Len(beats)].datetime - st.current_downtime_start_dt[1],
                 ongoing |-> TRUE])
    ELSE st.incidents

CloseOngoing(st, beats, now_dt) ==
  IF st.current_downtime_start_dt # None
    THEN Append(st.incidents,
                [start |-> st.current_downtime_start_dt[1],
                 duration |-> now_dt - st.current_downtime_start_dt[1],
                 ongoing |-> TRUE])
    ELSE st.incidents

Incidents(beats, now_dt) ==
  LET sorted == SortedBeats(CollectBeats(CollectInit, beats).processed_beats)
  IN CloseOngoing(DetectBeats(DetectInit, sorted), sorted, now_dt)

Ongoing(incident) == IF "ongoing" \in DOMAIN incident THEN incident.ongoing ELSE FALSE

(***************************************************************************)
(* analyze_heartbeats: the returned dictionary.  list(set(keywords)) has   *)
(* no defined order, so unique_keywords is any ordering of the set.        *)
(***************************************************************************)
Orderings(S) ==
  {f \in [1..Cardinality(S) -> S] : \A i, j \in 1..Cardinality(S) : f[i] = f[j] => i = j}

\* Variant: the keyword list is returned without removing duplicates.
UniqueKeywords_no_set(keywords) == {keywords}

UniqueKeywords(keywords) == Orderings(Range(keywords))

KeywordAnalysis(st, unique_keywords) ==
  [unique_keywords |-> unique_keywords,
   keyword_count |-> st.keywords_count,
   keyword_ratio |-> KeywordRatio(st.keywords_count, st.count)]

AnalysisResults(beats, now_dt, unique_keywords) ==
  [downtime_incidents |-> Incidents(beats, now_dt),
   keyword_analysis |-> KeywordAnalysis(ClassifyBeats(ClassifyInit, beats), unique_keywords),
   ping_data |-> CollectBeats(CollectInit, beats).ping_data]

StillDown(beats) ==
  DetectBeats(DetectInit, SortedBeats(CollectBeats(CollectInit, beats).processed_beats))
    .current_downtime_start_dt # None

(***************************************************************************)
(* calculate_summary_stats                                                 *)
(***************************************************************************)
DayDelta == 1
WeekDelta == 7
MonthDelta == 30

periods == [day |-> DayDelta, week |-> WeekDelta, month |-> MonthDelta]

RECURSIVE Sum(_)
Sum(seq) == IF seq = <<>> THEN 0 ELSE Head(seq) + Sum(Tail(seq))

Max(S) == CHOOSE x \in S : \A y \in S : y <= x

\* Variant: the comparison with the window start is reversed.
InPeriod_reversed(instant, period_start) == instant <= period_start

InPeriod(instant, period_start) == instant >= period_start

Durations(period_incidents) ==
  [i \in DOMAIN period_incidents |-> period_incidents[i].duration]

\* Variant: each duration is cut to the length of the window.
DowntimeStats_clipped(period_incidents, delta) ==
  LET count == Len(period_incidents)
      clipped == [i \in DOMAIN period_incidents |->
                    IF period_incidents[i].duration > delta THEN delta
                    ELSE period_incidents[i].duration]
      total_duration == Sum(clipped)
  IN [count |-> count,
      avg_duration |-> IF count > 0 THEN [num |-> total_duration, den |-> count]
                       ELSE [num |-> 0, den |-> 1],
      percentage |-> IF delta > 0 THEN [num |-> total_duration * 100, den |-> delta]
                     ELSE [num |-> 0, den |-> 1]]

DowntimeStats(period_incidents, delta) ==
  LET count == Len(period_incidents)
      total_duration == Sum(Durations(period_incidents))
  IN [count |-> count,
      avg_duration |-> IF count > 0 THEN [num |-> total_duration, den |-> count]
                       ELSE [num |-> 0, den |-> 1],
      percentage |-> IF delta > 0 THEN [num |-> total_duration * 100, den |-> delta]
                     ELSE [num |-> 0, den |-> 1]]

\* Variant: without samples the latency fields default to zero.
PingStats_zero_default(period_pings) ==
  [avg_ping |-> IF period_pings # <<>>
                  THEN Some([num |-> Sum(period_pings), den |-> Len(period_pings)])
                  ELSE Some([num |-> 0, den |-> 1]),
   max_ping |-> IF period_pings # <<>> THEN Some(Max(Range(period_pings))) ELSE Some(0)]

PingStats(period_pings) ==
  [avg_ping |-> IF period_pings # <<>>
                  THEN Some([num |-> Sum(period_pings), den |-> Len(period_pings)])
                  ELSE None,
   max_ping |-> IF period_pings # <<>> THEN Some(Max(Range(period_pings))) ELSE None]

PeriodSummary(incidents, ping_data, now_dt, delta) ==
  LET period_start == now_dt - delta
      StartsInPeriod(inc) == InPeriod(inc.start, period_start)
      PingInPeriod(p) == InPeriod(p.datetime, period_start)
      period_incidents == SelectSeq(incidents, StartsInPeriod)
      pings_in_period == SelectSeq(ping_data, PingInPeriod)
      period_pings == [i \in DOMAIN pings_in_period |-> pings_in_period[i].ping]
      downtime == DowntimeStats(period_incidents, delta)
      latency == PingStats(period_pings)
  IN [count |-> downtime.count,
      avg_duration |-> downtime.avg_duration,
      percentage |-> downtime.percentage,
      avg_ping |-> latency.avg_ping,
      max_ping |-> latency.max_ping]

SummaryStats(results, now_dt) ==
  [name \in DOMAIN periods |->
     PeriodSummary(results.downtime_incidents, results.ping_data, now_dt, periods[name])]

(***************************************************************************)
(* The per-monitor loop of main.                                           *)
(***************************************************************************)
NoResults ==
  [downtime_incidents |-> <<>>,
   keyword_analysis |-> [unique_keywords |-> <<>>, keyword_count |-> 0, keyword_ratio |-> 0],
   ping_data |-> <<>>]

\* No call of calculate_hours_since_period_start is under way.
HoursIdle ==
  /\ period = None
  /\ hours_pc = "idle"
  /\ wall_clock = None
  /\ hours_now = None
  /\ report_times = None
  /\ raised = None

\* No call of _format_timedelta is under way.
FormatIdle ==
  /\ td = None
  /\ format_pc = "idle"
  /\ formatted = None

Init ==
  /\ heartbeats = <<>>
  /\ clock \in Clocks
  /\ pc = "idle"
  /\ analysis_results = NoResults
  /\ now_aware = None
  /\ summary_stats = <<>>
  /\ now = None
  /\ HoursIdle
  /\ FormatIdle

Tick ==
  /\ clock < MaxClock
  /\ clock' = clock + 1
  /\ UNCHANGED <<heartbeats, pc, analysis_results, now_aware, summary_stats, now, hvars, fvars>>

Fetch(batches) ==
  /\ pc = "idle"
  /\ heartbeats' \in batches
  /\ pc' = "fetched"
  /\ UNCHANGED <<clock, analysis_results, now_aware, summary_stats, now, hvars, fvars>>

AnalyzeHeartbeats ==
  /\ pc = "fetched"
  /\ \E unique_keywords \in UniqueKeywords(ClassifyBeats(ClassifyInit, heartbeats).keywords) :
        analysis_results' = AnalysisResults(heartbeats, clock, unique_keywords)
  /\ now_aware' = IF StillDown(heartbeats) THEN Some(clock) ELSE None
  /\ pc' = "analyzed"
  /\ UNCHANGED <<heartbeats, clock, summary_stats, now, hvars, fvars>>

CalculateSummaryStats ==
  /\ pc = "analyzed"
  /\ now' = Some(clock)
  /\ summary_stats' = SummaryStats(analysis_results, clock)
  /\ pc' = "summarized"
  /\ UNCHANGED <<heartbeats, clock, analysis_results, now_aware, hvars, fvars>>

NextMonitor ==
  /\ pc = "summarized"
  /\ heartbeats' = <<>>
  /\ analysis_results' = NoResults
  /\ now_aware' = None
  /\ summary_stats' = <<>>
  /\ now' = None
  /\ pc' = "idle"
  /\ UNCHANGED <<clock, hvars, fvars>>

Next ==
  \/ Fetch(Batches)
  \/ AnalyzeHeartbeats
  \/ CalculateSummaryStats
  \/ NextMonitor
  \/ Tick

Spec == Init /\ [][Next]_vars

NextKw ==
  \/ Fetch(KwBatches)
  \/ AnalyzeHeartbeats
  \/ CalculateSummaryStats
  \/ NextMonitor
  \/ Tick

SpecKw == Init /\ [][NextKw]_vars

NextPing ==
  \/ Fetch(PingBatches)
  \/ AnalyzeHeartbeats
  \/ CalculateSummaryStats
  \/ NextMonitor
  \/ Tick

SpecPing == Init /\ [][NextPing]_vars

(***************************************************************************)
(* calculate_hours_since_period_start.  A datetime in the zone             *)
(* Asia/Shanghai (a fixed offset, no daylight saving) is a record of its   *)
(* calendar fields; year is 0 for the year of the reading and -1 for the   *)
(* year before it, leap and jan1wd say whether year 0 is a leap year and   *)
(* on which weekday (0 = Monday) it begins.                                *)
(***************************************************************************)
valid_periods ==
  << <<"d", "a", "y">>, <<"w", "e", "e", "k">>, <<"m", "o", "n", "t", "h">>,
     <<"q", "u", "a", "r", "t", "e", "r">>, <<"y", "e", "a", "r">> >>

\* The arguments tried: the five kinds, two of them again in other case,
\* and three texts that name no kind.
PeriodArgs ==
  Range(valid_periods)
  \cup { <<"D", "A", "Y">>, <<"W", "e", "e", "k">>,
         <<"h", "o", "u", "r">>, <<"d", "a", "y", "s">>, <<>> }

LocalNows ==
  [leap : BOOLEAN, jan1wd : {0, 2, 6}, year : {0}, month : 1..12,
   day : {1, 2, 28}, hour : {0, 1, 23}, minute : {0, 30, 59}, second : {0, 30}]

LowerChar(c) ==
  CASE c = "D" -> "d"
    [] c = "A" -> "a"
    [] c = "Y" -> "y"
    [] c = "W" -> "w"
    [] OTHER -> c

lower(text) == [i \in DOMAIN text |-> LowerChar(text[i])]

DaysInMonth(leap, month) ==
  CASE month = 2 -> IF leap THEN 29 ELSE 28
    [] month \in {4, 6, 9, 11} -> 30
    [] OTHER -> 31

RECURSIVE DaysBeforeMonth(_, _)
DaysBeforeMonth(leap, month) ==
  IF month = 1 THEN 0
  ELSE DaysBeforeMonth(leap, month - 1) + DaysInMonth(leap, month - 1)

\* Days from 31 December of year -1 to the date of dt.
toordinal(dt) ==
  IF dt.year = 0 THEN DaysBeforeMonth(dt.leap, dt.month) + dt.day
  ELSE dt.day - 31

fromordinal(dt, ord) ==
  IF ord >= 1
  THEN LET month == CHOOSE m \in 1..12 :
                      /\ DaysBeforeMonth(dt.leap, m) < ord
                      /\ ord <= DaysBeforeMonth(dt.leap, m) + DaysInMonth(dt.leap, m)
       IN [dt EXCEPT !.year = 0, !.month = month,
                     !.day = ord - DaysBeforeMonth(dt.leap, month)]
  ELSE [dt EXCEPT !.year = -1, !.month = 12, !.day = 31 + ord]

weekday(dt) == (dt.jan1wd + toordinal(dt) - 1) % 7

\* dt - datetime.timedelta(days=n)
MinusDays(dt, n) == fromordinal(dt, toordinal(dt) - n)

\* (a - b).total_seconds()
total_seconds(a, b) ==
  ((toordinal(a) - toordinal(b)) * 24 + (a.hour - b.hour)) * 3600
  + (a.minute - b.minute) * 60 + (a.second - b.second)

Truncated(reading) == [reading EXCEPT !.second = 0]

period_start(kind, now_dt) ==
  CASE kind = <<"d", "a", "y">> ->
         [now_dt EXCEPT !.hour = 0, !.minute = 0]
    [] kind = <<"w", "e", "e", "k">> ->
         LET current_weekday == weekday(now_dt)
             day_diff == current_weekday % 7
         IN [MinusDays(now_dt, day_diff) EXCEPT !.hour = 0, !.minute = 0]
    [] kind = <<"m", "o", "n", "t", "h">> ->
         [now_dt EXCEPT !.day = 1, !.hour = 0, !.minute = 0]
    [] kind = <<"q", "u", "a", "r", "t", "e", "r">> ->
         LET quarter_start_month == ((now_dt.month - 1) \div 3) * 3 + 1
         IN [now_dt EXCEPT !.month = quarter_start_month, !.day = 1,
                           !.hour = 0, !.minute = 0]
    [] kind = <<"y", "e", "a", "r">> ->
         [now_dt EXCEPT !.month = 1, !.day = 1, !.hour = 0, !.minute = 0]

hours_diff(kind, now_dt) ==
  RoundHalfEven(total_seconds(now_dt, period_start(kind, now_dt)), 3600)

ValueError == [type |-> "ValueError", names |-> valid_periods]

CallHours ==
  /\ hours_pc = "idle"
  /\ period' \in {Some(p) : p \in PeriodArgs}
  /\ hours_pc' = "called"
  /\ UNCHANGED <<wall_clock, hours_now, report_times, raised>>

\* A validation that answers an unknown kind with 0 hours instead of raising.
ValidatePeriod_handled ==
  /\ hours_pc = "called"
  /\ IF lower(period[1]) \notin Range(valid_periods)
     THEN hours_pc' = "returned" /\ report_times' = Some(0)
     ELSE hours_pc' = "validated" /\ UNCHANGED report_times
  /\ UNCHANGED <<period, wall_clock, hours_now, raised>>

ValidatePeriod ==
  /\ hours_pc = "called"
  /\ IF lower(period[1]) \notin Range(valid_periods)
     THEN hours_pc' = "raised" /\ raised' = Some(ValueError)
     ELSE hours_pc' = "validated" /\ UNCHANGED raised
  /\ UNCHANGED <<period, wall_clock, hours_now, report_times>>

ReadNow ==
  /\ hours_pc = "validated"
  /\ \E reading \in LocalNows :
       /\ wall_clock' = Some(reading)
       /\ hours_now' = Some(Truncated(reading))
  /\ hours_pc' = "now_read"
  /\ UNCHANGED <<period, report_times, raised>>

ComputeHours ==
  /\ hours_pc = "now_read"
  /\ report_times' = Some(hours_diff(lower(period[1]), hours_now[1]))
  /\ hours_pc' = "returned"
  /\ UNCHANGED <<period, wall_clock, hours_now, raised>>

HoursDone ==
  /\ hours_pc \in {"returned", "raised"}
  /\ period' = None
  /\ hours_pc' = "idle"
  /\ wall_clock' = None
  /\ hours_now' = None
  /\ report_times' = None
  /\ raised' = None

InitHours ==
  /\ heartbeats = <<>>
  /\ clock = MaxClock
  /\ pc = "idle"
  /\ analysis_results = NoResults
  /\ now_aware = None
  /\ summary_stats = <<>>
  /\ now = None
  /\ HoursIdle
  /\ FormatIdle

NextHours ==
  \/ (CallHours /\ UNCHANGED <<heartbeats, clock, pc, analysis_results, now_aware, summary_stats, now, fvars>>)
  \/ (ValidatePeriod /\ UNCHANGED <<heartbeats, clock, pc, analysis_results, now_aware, summary_stats, now, fvars>>)
  \/ (ReadNow /\ UNCHANGED <<heartbeats, clock, pc, analysis_results, now_aware, summary_stats, now, fvars>>)
  \/ (ComputeHours /\ UNCHANGED <<heartbeats, clock, pc, analysis_results, now_aware, summary_stats, now, fvars>>)
  \/ (HoursDone /\ UNCHANGED <<heartbeats, clock, pc, analysis_results, now_aware, summary_stats, now, fvars>>)

SpecHours == InitHours /\ [][NextHours]_vars

(***************************************************************************)
(* _format_timedelta.  A timedelta is a record of its whole seconds and    *)
(* its microseconds; total_seconds() is kept exact, counted in half        *)
(* seconds (the microseconds tried are 0 and 500000).                      *)
(***************************************************************************)
Timedelta(days, hours, minutes, seconds, microseconds) ==
  [seconds |-> ((days * 24 + hours) * 60 + minutes) * 60 + seconds,
   microseconds |-> microseconds]

\* The arguments tried: None, every duration built from 0..MaxUnit days,
\* hours, minutes and seconds with or without half a second, and the
\* negative duration of one second.
FormatArgs ==
  {None}
  \cup {Some(Timedelta(d, h, m, sec, us)) :
          d \in 0..MaxUnit, h \in 0..MaxUnit, m \in 0..MaxUnit,
          sec \in 0..MaxUnit, us \in {0, 500000}}
  \cup {Some(Timedelta(0, 0, 0, -1, 0))}

InHalves(seconds) == seconds * 2

DigitChars == <<"0", "1", "2", "3", "4", "5", "6", "7", "8", "9">>

\* str(n) for n >= 0
RECURSIVE Digits(_)
Digits(n) ==
  IF n < 10 THEN <<DigitChars[n + 1]>>
  ELSE Digits(n \div 10) \o <<DigitChars[(n % 10) + 1]>>

\* sep.join(parts)
RECURSIVE join(_, _)
join(sep, parts) ==
  IF parts = <<>> THEN <<>>
  ELSE IF Len(parts) = 1 THEN parts[1]
  ELSE parts[1] \o sep \o join(sep, Tail(parts))

\* The seconds are appended only when they are positive.
format_timedelta_no_fallback(arg) ==
  IF arg = None THEN <<"N", "/", "A">>
  ELSE
    LET total == InHalves(arg[1].seconds) + arg[1].microseconds \div 500000
        days == total \div InHalves(86400)
        remainder1 == total % InHalves(86400)
        hours == remainder1 \div InHalves(3600)
        remainder2 == remainder1 % InHalves(3600)
        minutes == remainder2 \div InHalves(60)
        seconds == remainder2 % InHalves(60)
        parts1 == IF days > 0 THEN <<Digits(days) \o <<"d">>>> ELSE <<>>
        parts2 == parts1 \o (IF hours > 0 THEN <<Digits(hours) \o <<"h">>>> ELSE <<>>)
        parts3 == parts2 \o (IF minutes > 0 THEN <<Digits(minutes) \o <<"m">>>> ELSE <<>>)
        parts == parts3 \o (IF seconds > 0
                            THEN <<Digits(seconds \div InHalves(1)) \o <<"s">>>>
                            ELSE <<>>)
    IN join(<<" ">>, parts)

format_timedelta(arg) ==
  IF arg = None THEN <<"N", "/", "A">>
  ELSE
    LET total == InHalves(arg[1].seconds) + arg[1].microseconds \div 500000
        days == total \div InHalves(86400)
        remainder1 == total % InHalves(86400)
        hours == remainder1 \div InHalves(3600)
        remainder2 == remainder1 % InHalves(3600)
        minutes == remainder2 \div InHalves(60)
        seconds == remainder2 % InHalves(60)
        parts1 == IF days > 0 THEN <<Digits(days) \o <<"d">>>> ELSE <<>>
        parts2 == parts1 \o (IF hours > 0 THEN <<Digits(hours) \o <<"h">>>> ELSE <<>>)
        parts3 == parts2 \o (IF minutes > 0 THEN <<Digits(minutes) \o <<"m">>>> ELSE <<>>)
        parts == parts3 \o (IF seconds > 0 \/ parts3 = <<>>
                            THEN <<Digits(seconds \div InHalves(1)) \o <<"s">>>>
                            ELSE <<>>)
    IN join(<<" ">>, parts)

CallFormat ==
  /\ format_pc = "idle"
  /\ td' \in FormatArgs
  /\ format_pc' = "called"
  /\ UNCHANGED formatted

FormatTimedelta ==
  /\ format_pc = "called"
  /\ formatted' = Some(format_timedelta(td))
  /\ format_pc' = "returned"
  /\ UNCHANGED td

FormatDone ==
  /\ format_pc = "returned"
  /\ td' = None
  /\ format_pc' = "idle"
  /\ formatted' = None

NextFormat ==
  \/ (CallFormat /\ UNCHANGED <<heartbeats, clock, pc, analysis_results, now_aware, summary_stats, now, hvars>>)
  \/ (FormatTimedelta /\ UNCHANGED <<heartbeats, clock, pc, analysis_results, now_aware, summary_stats, now, hvars>>)
  \/ (FormatDone /\ UNCHANGED <<heartbeats, clock, pc, analysis_results, now_aware, summary_stats, now, hvars>>)

SpecFormat == InitHours /\ [][NextFormat]_vars

(***************************************************************************)
(* Vocabulary of the properties.                                           *)
(***************************************************************************)
Analyzed == pc = "analyzed"

incidents == analysis_results.downtime_incidents

\* The time-sorted sequence of the beats whose timestamp parses.
Timeline == SortedBeats(CollectBeats(CollectInit, heartbeats).processed_beats)

Down(tl, i) == tl[i].status = 0

EndsDown(tl) == tl # <<>> /\ Down(tl, Len(tl))

DownToUp(tl) == {i \in 1..(Len(tl) - 1) : Down(tl, i) /\ ~Down(tl, i + 1)}

\* <<a, b>>: beats a..b are a maximal run of down beats and beat b + 1 is up.
ClosedRuns(tl) ==
  {r \in (DOMAIN tl) \X (DOMAIN tl) :
     /\ r[1] <= r[2]
     /\ \A i \in r[1]..r[2] : Down(tl, i)
     /\ r[1] = 1 \/ ~Down(tl, r[1] - 1)
     /\ r[2] < Len(tl) /\ ~Down(tl, r[2] + 1)}

ClosedIncidents == {i \in DOMAIN incidents : ~Ongoing(incidents[i])}

OngoingIncidents == {i \in DOMAIN incidents : Ongoing(incidents[i])}

\* C1: the number of incidents is the number of down-to-up transitions of the
\* sorted parseable beats, plus one exactly when the last of them is down.
C1_IncidentCount ==
  Analyzed =>
    LET tl == Timeline
    IN Len(incidents) = Cardinality(DownToUp(tl)) + (IF EndsDown(tl) THEN 1 ELSE 0)

C1_Witness ==
  /\ Analyzed
  /\ Cardinality(DownToUp(Timeline)) = 1
  /\ EndsDown(Timeline)
  /\ Len(incidents) = 2

\* C2: the k-th closed incident starts at the first beat of the k-th maximal
\* run of down beats that is followed by an up beat, and lasts until that up
\* beat; nothing else closes an incident.
C2_ClosedIncidentSpan ==
  Analyzed =>
    LET tl == Timeline
        runs == ClosedRuns(tl)
    IN /\ Cardinality(ClosedIncidents) = Cardinality(runs)
       /\ \A k \in ClosedIncidents :
            \E r \in runs :
              /\ Cardinality({q \in runs : q[1] < r[1]}) = k - 1
              /\ incidents[k].start = tl[r[1]].datetime
              /\ incidents[k].duration = tl[r[2] + 1].datetime - tl[r[1]].datetime

C2_Witness ==
  /\ Analyzed
  /\ LET tl == Timeline
     IN /\ <<1, 2>> \in ClosedRuns(tl)
        /\ tl[1].datetime < tl[2].datetime
        /\ tl[2].datetime < tl[3].datetime
        /\ Len(incidents) = 1
        /\ incidents[1].start = tl[1].datetime

\* C3: only the last incident can be ongoing, an ongoing incident exists
\* exactly when the sorted beats end down, and closed incidents read ongoing
\* as false.
C3_OngoingOnlyLast ==
  Analyzed =>
    LET ends_down == EndsDown(Timeline)
    IN /\ \A i \in OngoingIncidents : i = Len(incidents)
       /\ Cardinality(OngoingIncidents) <= 1
       /\ (OngoingIncidents # {}) <=> ends_down
       /\ \A i \in DOMAIN incidents :
            (i < Len(incidents) \/ ~ends_down) => Ongoing(incidents[i]) = FALSE

C3_Witness ==
  /\ Analyzed
  /\ Len(incidents) = 2
  /\ ~Ongoing(incidents[1])
  /\ Ongoing(incidents[2])

\* C4: when the sorted beats end down there is exactly one ongoing incident
\* and its duration is the instant read at evaluation time minus its start.
C4_OngoingDuration ==
  (Analyzed /\ EndsDown(Timeline)) =>
    /\ Cardinality(OngoingIncidents) = 1
    /\ now_aware # None
    /\ \A i \in OngoingIncidents :
         incidents[i].duration = now_aware[1] - incidents[i].start

C4_Witness ==
  /\ Analyzed
  /\ now_aware # None
  /\ OngoingIncidents # {}
  /\ LET tl == Timeline
     IN /\ EndsDown(tl)
        /\ tl[Len(tl)].datetime < now_aware[1]
        /\ tl[1].datetime < tl[Len(tl)].datetime

\* C5: incidents are ordered by start and each ends no later than the next
\* one starts.
C5_OrderedDisjoint ==
  Analyzed =>
    \A i \in 1..(Len(incidents) - 1) :
      /\ incidents[i].start <= incidents[i + 1].start
      /\ incidents[i].start + incidents[i].duration <= incidents[i + 1].start

C5_Witness ==
  /\ Analyzed
  /\ Len(heartbeats) = 3
  /\ heartbeats[1].time = WellFormed(34)
  /\ heartbeats[3].time = WellFormed(2)
  /\ Len(incidents) = 2
  /\ incidents[1].start < incidents[2].start

(***************************************************************************)
(* Permutations of a batch.                                                *)
(***************************************************************************)
Perms(n) == {f \in [1..n -> 1..n] : \A i, j \in 1..n : f[i] = f[j] => i = j}

BatchPerms == [n \in 0..MaxBeats |-> Perms(n)]

Permute(seq, f) == [i \in DOMAIN seq |-> seq[f[i]]]

Parses(time_val) ==
  \/ time_val.kind = "num"
  \/ time_val.kind = "str" /\ time_val.wellformed

\* f keeps beats that share an instant in the order the batch has them.
KeepsTieOrder(seq, f) ==
  \A i, j \in DOMAIN seq :
    (/\ i < j
     /\ Parses(seq[f[i]].time)
     /\ Parses(seq[f[j]].time)
     /\ seq[f[i]].time.instant = seq[f[j]].time.instant) => f[i] < f[j]

\* The instant an evaluation of the same batch reads for a trailing incident.
SameNow == IF now_aware # None THEN now_aware[1] ELSE clock

\* C6 as stated: every permutation of the batch gives the same incident list.
C6_AnyPermutation ==
  Analyzed =>
    \A f \in BatchPerms[Len(heartbeats)] :
      Incidents(Permute(heartbeats, f), SameNow) = incidents

\* C6 amended: every permutation of the batch that keeps beats sharing an
\* instant in their original relative order gives the same incident list.
C6_TieOrderPermutation ==
  Analyzed =>
    LET same_now == SameNow
    IN \A f \in BatchPerms[Len(heartbeats)] :
         KeepsTieOrder(heartbeats, f) =>
           Incidents(Permute(heartbeats, f), same_now) = incidents

C6_Witness ==
  /\ Analyzed
  /\ Len(heartbeats) = 3
  /\ heartbeats[1].time = WellFormed(34)
  /\ heartbeats[2].time = WellFormed(2)
  /\ heartbeats[3].time = WellFormed(32)
  /\ Len(incidents) = 2
  /\ \E f \in BatchPerms[3] :
       /\ KeepsTieOrder(heartbeats, f)
       /\ Permute(heartbeats, f) # heartbeats
       /\ Incidents(Permute(heartbeats, f), SameNow) = incidents

(***************************************************************************)
(* Records whose timestamp does not parse.                                 *)
(***************************************************************************)
Without(seq, i) == SubSeq(seq, 1, i - 1) \o SubSeq(seq, i + 1, Len(seq))

Unparseable == {i \in DOMAIN heartbeats : ~Parses(heartbeats[i].time)}

keyword_analysis == analysis_results.keyword_analysis

Triggers(beats) == {i \in DOMAIN beats : ExtractKeyword(beats[i].msg) # None}

ExtractedKeywords(beats) == {ExtractKeyword(beats[i].msg)[1] : i \in Triggers(beats)}

MarkerAt(msg) == {i \in 1..Len(msg) : i + 2 <= Len(msg) /\ SubSeq(msg, i, i + 2) = Marker}

\* The content of the first bracket pair after the first marker, if not empty.
KeywordAfterMarker(msg) ==
  IF MarkerAt(msg) = {} THEN None
  ELSE LET match == re_search(SubSeq(msg, Min(MarkerAt(msg)) + 3, Len(msg)))
       IN IF match # None /\ match[1] # <<>> THEN match ELSE None

TriggersAfterMarker == {i \in DOMAIN heartbeats : KeywordAfterMarker(heartbeats[i].msg) # None}

\* C8: the keywords recorded are the contents of the first bracket pair that
\* follows the marker; brackets before the marker are not used, a message
\* without marker or with an empty bracket gives no keyword and no trigger.
C8_BracketAfterMarker ==
  Analyzed =>
    /\ Range(keyword_analysis.unique_keywords) =
         {KeywordAfterMarker(heartbeats[i].msg)[1] : i \in TriggersAfterMarker}
    /\ keyword_analysis.keyword_count = Cardinality(TriggersAfterMarker)

\* C9 as stated: the ratio is exactly keyword_count / records * 100 (the
\* ratio is kept in hundredths of a percent).
C9_ExactRatio ==
  Analyzed =>
    keyword_analysis.keyword_ratio * Len(heartbeats) =
      keyword_analysis.keyword_count * 10000

\* C9 amended: keyword_count is the number of records whose extraction gave
\* non-empty content and lies in 0..records; keyword_ratio is
\* keyword_count / records * 100 rounded to two decimals, lies in [0, 100]
\* and is 0 for an empty batch; unique_keywords holds each distinct extracted
\* keyword exactly once, so it has at most keyword_count elements.
C9_KeywordAnalysis ==
  Analyzed =>
    LET n == Len(heartbeats)
        kc == keyword_analysis.keyword_count
        ratio == keyword_analysis.keyword_ratio
        uk == keyword_analysis.unique_keywords
        err == ratio * n - kc * 10000
    IN /\ kc = Cardinality(Triggers(heartbeats))
       /\ 0 <= kc /\ kc <= n
       /\ -n <= 2 * err /\ 2 * err <= n
       /\ 0 <= ratio /\ ratio <= 10000
       /\ n = 0 => ratio = 0
       /\ Range(uk) = ExtractedKeywords(heartbeats)
       /\ \A i, j \in DOMAIN uk : uk[i] = uk[j] => i = j
       /\ Len(uk) <= kc

C9_Witness ==
  /\ Analyzed
  /\ Len(heartbeats) = 3
  /\ keyword_analysis.keyword_count = 2
  /\ keyword_analysis.keyword_ratio = 6667
  /\ Len(keyword_analysis.unique_keywords) = 1
  /\ Len(keyword_analysis.unique_keywords[1]) = 2

(***************************************************************************)
(* Window counts.                                                          *)
(***************************************************************************)
\* C10: each window counts the incidents whose start lies between the
\* window start and now, both included.
C10_CountWithinWindow ==
  pc = "summarized" =>
    \A name \in DOMAIN periods :
      summary_stats[name].count =
        Cardinality({i \in DOMAIN incidents :
                       /\ now[1] - periods[name] <= incidents[i].start
                       /\ incidents[i].start <= now[1]})

(***************************************************************************)
(* Window totals.                                                          *)
(***************************************************************************)
Summarized == pc = "summarized"

RECURSIVE SumOver(_, _)
SumOver(S, seq) ==
  IF S = {} THEN 0
  ELSE LET i == CHOOSE x \in S : TRUE IN seq[i] + SumOver(S \ {i}, seq)

\* The incidents a window counts: those starting at or after the window start.
Counted(name) == {i \in DOMAIN incidents : incidents[i].start >= now[1] - periods[name]}

Downtime(name) == SumOver(Counted(name), Durations(incidents))

\* C11: a window takes the whole duration of every incident it counts:
\* percentage = sum of the full durations / window length * 100, and
\* avg_duration = that sum / count (zero when nothing is counted).
C11_FullDurationAttributed ==
  Summarized =>
    \A name \in DOMAIN periods :
      LET total == Downtime(name)
          s == summary_stats[name]
      IN /\ s.count = Cardinality(Counted(name))
         /\ s.percentage.num * periods[name] = total * 100 * s.percentage.den
         /\ s.percentage.den > 0
         /\ s.count > 0 => s.avg_duration.num * s.count = total * s.avg_duration.den
         /\ s.count = 0 => s.avg_duration.num = 0
         /\ s.avg_duration.den > 0

\* One counted incident longer than the day window: more than 100 percent.
C11_Witness ==
  /\ Summarized
  /\ summary_stats.day.count = 1
  /\ Len(incidents) = 1
  /\ incidents[1].duration > periods.day
  /\ summary_stats.day.percentage.num > 100 * summary_stats.day.percentage.den

\* C12: every percentage is at least 0.
C12_PercentageNonNegative ==
  Summarized =>
    \A name \in DOMAIN periods :
      /\ summary_stats[name].percentage.den > 0
      /\ summary_stats[name].percentage.num >= 0

\* C14: an empty batch gives empty incidents and ping data, keyword count
\* and ratio 0, and in every window count 0, zero average duration,
\* percentage 0 and no latency value.
C14_EmptyInput ==
  heartbeats = <<>> =>
    /\ Analyzed =>
         /\ incidents = <<>>
         /\ analysis_results.ping_data = <<>>
         /\ keyword_analysis.keyword_count = 0
         /\ keyword_analysis.keyword_ratio = 0
    /\ Summarized =>
         \A name \in DOMAIN periods :
           /\ summary_stats[name].count = 0
           /\ summary_stats[name].avg_duration.num = 0
           /\ summary_stats[name].avg_duration.den # 0
           /\ summary_stats[name].percentage.num = 0
           /\ summary_stats[name].percentage.den # 0
           /\ summary_stats[name].avg_ping = None
           /\ summary_stats[name].max_ping = None

C14_Witness ==
  /\ Summarized
  /\ heartbeats = <<>>
  /\ analysis_results.downtime_incidents = <<>>
  /\ DOMAIN summary_stats = {"day", "week", "month"}

\* C19: the instant used for the ongoing incident's duration is the instant
\* used for the window starts.
C19_SingleEvaluationInstant ==
  (Summarized /\ now_aware # None) => now_aware = now

(***************************************************************************)
(* Latency per window.                                                     *)
(***************************************************************************)
ping_data == analysis_results.ping_data

Pings == [i \in DOMAIN ping_data |-> ping_data[i].ping]

\* The samples whose instant lies between the window start and now.
SamplesWithin(name) ==
  {i \in DOMAIN ping_data :
     /\ now[1] - periods[name] <= ping_data[i].datetime
     /\ ping_data[i].datetime <= now[1]}

\* C13: avg_ping is the mean and max_ping the maximum of the samples within
\* the window; both are None exactly when the window holds no sample, and
\* max_ping >= avg_ping when present.
C13_LatencyWithinWindow ==
  Summarized =>
    \A name \in DOMAIN periods :
      LET within == SamplesWithin(name)
          s == summary_stats[name]
      IN /\ (s.avg_ping = None) <=> (within = {})
         /\ (s.max_ping = None) <=> (within = {})
         /\ within # {} =>
              /\ s.avg_ping[1].num * Cardinality(within) =
                   SumOver(within, Pings) * s.avg_ping[1].den
              /\ s.max_ping[1] = Max({Pings[i] : i \in within})
              /\ s.max_ping[1] * s.avg_ping[1].den >= s.avg_ping[1].num

\* C15: a second call on the same incidents and samples, at whatever the
\* clock then shows, returns the values of the first call.
C15_SecondCallIdentical ==
  Summarized => SummaryStats(analysis_results, clock) = summary_stats

\* C20: counts, total downtime (when no duration is negative) and the
\* samples used grow from the day to the week to the month window, and so
\* does max_ping where present.
Nested(a, b) ==
  /\ summary_stats[a].count <= summary_stats[b].count
  /\ (\A i \in DOMAIN incidents : incidents[i].duration >= 0) =>
       summary_stats[a].percentage.num <= summary_stats[b].percentage.num
  /\ summary_stats[a].avg_ping # None =>
       /\ summary_stats[b].avg_ping # None
       /\ summary_stats[a].avg_ping[1].den <= summary_stats[b].avg_ping[1].den
       /\ summary_stats[a].max_ping[1] <= summary_stats[b].max_ping[1]

C20_WindowNesting ==
  Summarized => (Nested("day", "week") /\ Nested("week", "month"))

C20_Witness ==
  /\ Summarized
  /\ \A i \in DOMAIN incidents : incidents[i].duration >= 0
  /\ summary_stats.week.count < summary_stats.month.count
  /\ summary_stats.week.percentage.num < summary_stats.month.percentage.num
  /\ summary_stats.day.avg_ping # None
  /\ summary_stats.day.avg_ping[1].den < summary_stats.week.avg_ping[1].den
  /\ summary_stats.day.max_ping[1] < summary_stats.week.max_ping[1]

(***************************************************************************)
(* calculate_hours_since_period_start.                                     *)
(***************************************************************************)
\* What the call shows when it refuses its argument: it has not passed the
\* validation, has read no clock, has returned no hour count, and once it
\* has ended it has ended with the ValueError that names the allowed kinds.
Refused ==
  /\ hours_pc \in {"called", "raised"}
  /\ wall_clock = None
  /\ hours_now = None
  /\ report_times = None
  /\ hours_pc = "raised" =>
       /\ raised # None
       /\ raised[1].type = "ValueError"
       /\ raised[1].names = valid_periods

\* C16 as stated: every argument outside {day, week, month, quarter, year}
\* is refused with the validation error before any time computation, and
\* no hour count is returned.
C16_OutsideSetRefused ==
  (period # None /\ period[1] \notin Range(valid_periods)) => Refused

\* C16 as amended: every argument whose lower-cased form is outside
\* {day, week, month, quarter, year} is refused with the validation error
\* before any time computation, and no hour count is returned.
C16_LowerCasedOutsideSetRefused ==
  (period # None /\ lower(period[1]) \notin Range(valid_periods)) => Refused

C16_Witness ==
  /\ period = Some(<<"h", "o", "u", "r">>)
  /\ hours_pc = "raised"
  /\ raised = Some(ValueError)

\* The start of the current period of the given kind, as the ordinal of its
\* day: today, the latest Monday, the 1st of the month, the 1st of the
\* quarter's first month, 1 January.
StartOrdinal(kind, reading) ==
  CASE kind = <<"d", "a", "y">> -> toordinal(reading)
    [] kind = <<"w", "e", "e", "k">> ->
         CHOOSE o \in (toordinal(reading) - 6)..toordinal(reading) :
           (reading.jan1wd + o + 6) % 7 = 0
    [] kind = <<"m", "o", "n", "t", "h">> ->
         DaysBeforeMonth(reading.leap, reading.month) + 1
    [] kind = <<"q", "u", "a", "r", "t", "e", "r">> ->
         LET first == CHOOSE m \in {1, 4, 7, 10} :
                        m <= reading.month /\ reading.month <= m + 2
         IN DaysBeforeMonth(reading.leap, first) + 1
    [] kind = <<"y", "e", "a", "r">> -> 1

\* Seconds from 00:00 of the start day to the reading.
Elapsed(kind, reading) ==
  ((toordinal(reading) - StartOrdinal(kind, reading)) * 24 + reading.hour) * 3600
  + reading.minute * 60 + reading.second

\* n is an integer nearest to num / den (either neighbour at a tie).
Nearest(n, num, den) ==
  /\ 2 * (num - n * den) <= den
  /\ 2 * (n * den - num) <= den

\* C17: for every valid kind and every reading of the clock, the hour count
\* returned is the number of hours between the period start and now,
\* rounded to the nearest integer, and it is never negative.
C17_NearestHourCount ==
  (hours_pc = "returned" /\ period[1] \in Range(valid_periods)) =>
    /\ report_times[1] >= 0
    /\ Nearest(report_times[1], Elapsed(period[1], wall_clock[1]), 3600)

(***************************************************************************)
(* _format_timedelta.                                                      *)
(***************************************************************************)
Units == <<"d", "h", "m", "s">>

\* The seconds one unit stands for.
UnitSeconds(unit) ==
  CASE unit = "d" -> 86400 [] unit = "h" -> 3600 [] unit = "m" -> 60 [] unit = "s" -> 1

RECURSIVE Split(_)
\* The pieces of a text between its spaces; an empty text has none.
Split(text) ==
  IF text = <<>> THEN <<>>
  ELSE IF \A i \in DOMAIN text : text[i] # " " THEN <<text>>
  ELSE LET cut == Min({i \in DOMAIN text : text[i] = " "})
       IN <<SubSeq(text, 1, cut - 1)>> \o Split(SubSeq(text, cut + 1, Len(text)))

RECURSIVE Number(_)
\* The number a text of decimal digits denotes.
Number(text) ==
  IF text = <<>> THEN 0
  ELSE Number(SubSeq(text, 1, Len(text) - 1)) * 10
       + (CHOOSE d \in 0..9 : DigitChars[d + 1] = text[Len(text)])

\* The returned text read back: which value it shows for which unit.
Shown ==
  LET pieces == Split(formatted[1])
  IN [i \in DOMAIN pieces |->
        [unit |-> pieces[i][Len(pieces[i])],
         value |-> Number(SubSeq(pieces[i], 1, Len(pieces[i]) - 1))]]

ShownUnits == {Shown[i].unit : i \in DOMAIN Shown}

\* The position of a unit in days, hours, minutes, seconds.
Rank(unit) == CHOOSE k \in DOMAIN Units : Units[k] = unit

\* The whole-unit breakdown of a number of whole seconds.
Part(whole, unit) ==
  CASE unit = "d" -> whole \div 86400
    [] unit = "h" -> (whole % 86400) \div 3600
    [] unit = "m" -> (whole % 3600) \div 60
    [] unit = "s" -> whole % 60

FormattedDuration ==
  /\ format_pc = "returned"
  /\ td # None
  /\ td[1].seconds >= 0

\* Units appear largest first, each with its value of the breakdown, and
\* the values shown add up to the whole seconds of the duration.
LargestFirstAndSum ==
  /\ \A i \in DOMAIN Shown : Shown[i].unit \in Range(Units)
  /\ \A i, j \in DOMAIN Shown : i < j => Rank(Shown[i].unit) < Rank(Shown[j].unit)
  /\ \A i \in DOMAIN Shown : Shown[i].value = Part(td[1].seconds, Shown[i].unit)
  /\ SumOver(DOMAIN Shown,
             [i \in DOMAIN Shown |-> Shown[i].value * UnitSeconds(Shown[i].unit)])
       = td[1].seconds

\* C18 as stated: only the zero-valued leading units are omitted, so the
\* units shown are all those from the first non-zero one down to seconds.
C18_OnlyLeadingZerosOmitted ==
  FormattedDuration =>
    /\ LargestFirstAndSum
    /\ LET nonzero == {k \in 1..3 : Part(td[1].seconds, Units[k]) # 0}
           first == IF nonzero = {} THEN 4 ELSE Min(nonzero)
       IN ShownUnits = {Units[k] : k \in first..4}

\* C18 as amended: every zero-valued unit of days, hours and minutes is
\* omitted, leading or not; seconds are shown when the seconds with their
\* fraction are positive or when nothing else is shown.
C18_EveryZeroUnitOmitted ==
  FormattedDuration =>
    /\ LargestFirstAndSum
    /\ \A k \in 1..3 :
         (Units[k] \in ShownUnits) <=> (Part(td[1].seconds, Units[k]) # 0)
    /\ ("s" \in ShownUnits) <=>
         \/ Part(td[1].seconds, "s") # 0
         \/ td[1].microseconds > 0
         \/ \A k \in 1..3 : Part(td[1].seconds, Units[k]) = 0

C18_Witness ==
  /\ format_pc = "returned"
  /\ td = Some(Timedelta(1, 0, 2, 0, 0))
  /\ formatted = Some(<<"1", "d", " ", "2", "m">>)

====
